---- MODULE Spec2Model ----
(***************************************************************************)
(* Patient management service (main.py): the persisted collection          *)
(* patients.json, the pydantic models Patient / PatientUpdate and the      *)
(* request handlers view, view_patient, sort_patients, create_patient,     *)
(* update_patient and delete_patient.                                      *)
(*                                                                         *)
(* Representation of values:                                               *)
(*   - a Python dict with string keys is a TLA+ function whose DOMAIN is   *)
(*     the set of keys present;                                            *)
(*   - the dict held by patients.json is ordered (json.load keeps the file *)
(*     order, insertion appends), so it is a sequence of entries           *)
(*     [id |-> key, rec |-> value] with pairwise distinct ids;             *)
(*   - height is counted in centimetres (160 stands for 1.6 m), weight in  *)
(*     kilograms, bmi in hundredths (2148 stands for 21.48).               *)
(***************************************************************************)
EXTENDS Integers, Sequences, FiniteSets, TLC

VARIABLES
    file,      \* contents of patients.json
    call,      \* the last request: [op, id, arg]
    resp,      \* its response: [status, detail, result, saves]
    before,    \* contents of patients.json when the last request started
    gone,      \* ids deleted and not created again, as of the start of the last request
    nops,      \* number of requests served so far
    pc,        \* concurrent service: where each worker thread is in its handler
    req,       \* concurrent service: the request each worker thread serves
    snap,      \* concurrent service: what each worker thread read from patients.json
    out,       \* concurrent service: the outcome of each worker thread's handler
    log        \* concurrent service: the loads and saves in the order they happened

seqVars == <<call, resp, gone, nops>>

concVars == <<pc, req, snap, out, log>>

vars == <<file, before, seqVars, concVars>>

-----------------------------------------------------------------------------
(* Bounds of the model *)

MaxOps == 2
MaxPatchFields == 2
MaxSortLen == 3

Ids == {"P001", "P002"}

SortIds == {"P001", "P002", "P003", "P004"}

Procs == {1, 2}

-----------------------------------------------------------------------------
(* Python dict operations on the ordered collection *)

Keys(data) == {data[i].id : i \in DOMAIN data}

IndexOf(data, id) == CHOOSE i \in DOMAIN data : data[i].id = id

Get(data, id) == data[IndexOf(data, id)].rec

Put(data, id, rec) ==
    IF id \in Keys(data)
    THEN [data EXCEPT ![IndexOf(data, id)] = [id |-> id, rec |-> rec]]
    ELSE Append(data, [id |-> id, rec |-> rec])

\* variant: del that removes nothing
DelKeyNone(data, id) == data

DelKey(data, id) == SelectSeq(data, LAMBDA e : e.id # id)

Values(data) == data

EmptyDict == [k \in {} |-> 0]

SetItem(d, k, v) == [x \in (DOMAIN d) \cup {k} |-> IF x = k THEN v ELSE d[x]]

-----------------------------------------------------------------------------
(* class Patient *)

GenderLiteral == {"male", "female", "other"}

AgeUpper == 120

PatientFields == {"name", "city", "age", "gender", "height", "weight"}

\* round(x, 2) on a quotient n/d of naturals, in hundredths: round half to even.
\* The quotient is taken exactly; the binary floating point error of the
\* division is not represented.
RoundHalfEven(n, d) ==
    LET q == n \div d
        r == n % d
    IN  IF 2 * r < d THEN q
        ELSE IF 2 * r > d THEN q + 1
        ELSE IF q % 2 = 0 THEN q ELSE q + 1

\* Patient.bmi: round(weight / height**2, 2); height in cm, result in hundredths
Bmi(height, weight) == RoundHalfEven(weight * 1000000, height * height)

\* variant: the bands closed at their upper ends
VerdictUpperInclusive(bmi) ==
    IF bmi <= 1850 THEN "Underweight"
    ELSE IF bmi <= 2500 THEN "Normal"
    ELSE IF bmi <= 3000 THEN "Overweight"
    ELSE "Obese"

\* Patient.verdict
Verdict(bmi) ==
    IF bmi < 1850 THEN "Underweight"
    ELSE IF bmi < 2500 THEN "Normal"
    ELSE IF bmi < 3000 THEN "Overweight"
    ELSE "Obese"

\* Patient(**d): validation of the declared fields; other keys of d are ignored
PatientValid(d) ==
    /\ PatientFields \subseteq DOMAIN d
    /\ "id" \in DOMAIN d
    /\ d.age > 0
    /\ d.age < AgeUpper
    /\ d.gender \in GenderLiteral
    /\ d.height > 0
    /\ d.weight > 0

\* variant: computed fields found in the input are kept instead of recomputed
PatientDumpStale(d) ==
    LET b == IF "bmi" \in DOMAIN d THEN d.bmi
             ELSE RoundHalfEven(d.weight * 1000000, d.height * d.height)
    IN  [name    |-> d.name,
         city    |-> d.city,
         age     |-> d.age,
         gender  |-> d.gender,
         height  |-> d.height,
         weight  |-> d.weight,
         bmi     |-> b,
         verdict |-> IF "verdict" \in DOMAIN d THEN d.verdict
                     ELSE IF b < 1850 THEN "Underweight"
                     ELSE IF b < 2500 THEN "Normal"
                     ELSE IF b < 3000 THEN "Overweight"
                     ELSE "Obese"]

\* Patient(**d).model_dump(exclude id): the declared fields and the computed ones
PatientDump(d) ==
    [name    |-> d.name,
     city    |-> d.city,
     age     |-> d.age,
     gender  |-> d.gender,
     height  |-> d.height,
     weight  |-> d.weight,
     bmi     |-> Bmi(d.height, d.weight),
     verdict |-> Verdict(Bmi(d.height, d.weight))]

-----------------------------------------------------------------------------
(* class PatientUpdate *)

\* order in which model_dump lists the fields of PatientUpdate
FieldOrder == <<"name", "city", "age", "gender", "height", "weight">>

\* PatientUpdate(**p): every field optional, constraints on the fields present
PatientUpdateValid(p) ==
    /\ DOMAIN p \subseteq PatientFields
    /\ "age" \in DOMAIN p => p.age > 0
    /\ "gender" \in DOMAIN p => p.gender \in GenderLiteral
    /\ "height" \in DOMAIN p => p.height > 0
    /\ "weight" \in DOMAIN p => p.weight > 0

\* patient_update.model_dump(exclude_unset=True).items(): the keys set, in field order
Items(p) == SelectSeq(FieldOrder, LAMBDA k : k \in DOMAIN p)

-----------------------------------------------------------------------------
(* data_load / save_data: patients.json holds one JSON object, a list of    *)
(* members <<key, value>> in file order.                                    *)

\* json.load: members are inserted in file order, a repeated key keeps its
\* first position and takes its last value
RECURSIVE ParseObject(_, _)
ParseObject(members, acc) ==
    IF members = <<>> THEN acc
    ELSE ParseObject(Tail(members), Put(acc, Head(members)[1], Head(members)[2]))

data_load(f) == ParseObject(f, <<>>)

\* json.dump: one member per key, in dict order; the file is overwritten
save_data(data) == [i \in DOMAIN data |-> <<data[i].id, data[i].rec>>]

-----------------------------------------------------------------------------
(* Handlers; each yields [status, detail, result, written]: the status and  *)
(* detail of the response, the records it returns, and the contents handed  *)
(* to save_data, one element per call of save_data.                         *)

Outcome(status, detail, result, written) ==
    [status |-> status, detail |-> detail, result |-> result, written |-> written]

view(f) ==
    LET data == data_load(f)
    IN  Outcome(200, "", data, <<>>)

view_patient(f, patient_id) ==
    LET data == data_load(f)
    IN  IF patient_id \in Keys(data)
        THEN Outcome(200, "", <<[id |-> patient_id, rec |-> Get(data, patient_id)]>>, <<>>)
        ELSE Outcome(404, "Patient not found", <<>>, <<>>)

\* variant: the check for an existing id is missing
create_patient_overwrite(f, patient) ==
    LET data == data_load(f)
    IN  Outcome(201, "Patient created successfully", <<>>,
                <<save_data(Put(data, patient.id, PatientDump(patient)))>>)

create_patient(f, patient) ==
    LET data == data_load(f)
    IN  IF patient.id \in Keys(data)
        THEN Outcome(400, "Patient already exists.", <<>>, <<>>)
        ELSE Outcome(201, "Patient created successfully", <<>>,
                     <<save_data(Put(data, patient.id, PatientDump(patient)))>>)

\* the body of the for loop of update_patient, which ends in a return
UpdateLoopBody(data, patient_id, existing_patient_info, key, value) ==
    LET info == SetItem(SetItem(existing_patient_info, key, value), "id", patient_id)
    IN  IF ~PatientValid(info)
        THEN Outcome(500, "ValidationError", <<>>, <<>>)
        ELSE Outcome(200, "patient_updated", <<>>,
                     <<save_data(Put(data, patient_id, PatientDump(info)))>>)

\* variant: without a field to update, the stored dict with the id added to it
\* is saved as it is
update_patient_leak(f, patient_id, patient_update) ==
    LET data == data_load(f)
    IN  IF patient_id \notin Keys(data)
        THEN Outcome(404, "Patient not found", <<>>, <<>>)
        ELSE LET items == Items(patient_update)
             IN  IF items = <<>>
                 THEN Outcome(200, "patient_updated", <<>>,
                              <<save_data(Put(data, patient_id,
                                              SetItem(Get(data, patient_id), "id", patient_id)))>>)
                 ELSE UpdateLoopBody(data, patient_id, Get(data, patient_id),
                                     Head(items), patient_update[Head(items)])

\* the loop is left in its first iteration; without an iteration the handler
\* falls off its end and the response is 200 with body null
update_patient(f, patient_id, patient_update) ==
    LET data == data_load(f)
    IN  IF patient_id \notin Keys(data)
        THEN Outcome(404, "Patient not found", <<>>, <<>>)
        ELSE LET items == Items(patient_update)
             IN  IF items = <<>>
                 THEN Outcome(200, "null", <<>>, <<>>)
                 ELSE UpdateLoopBody(data, patient_id, Get(data, patient_id),
                                     Head(items), patient_update[Head(items)])

delete_patient(f, patient_id) ==
    LET data == data_load(f)
    IN  IF patient_id \notin Keys(data)
        THEN Outcome(404, "patient not found", <<>>, <<>>)
        ELSE Outcome(200, "patient deleted", <<>>, <<save_data(DelKey(data, patient_id))>>)

\* variant: a save replaces the members it holds and keeps the other members
\* of the file
StoredMerge(f, written) ==
    IF written = <<>> THEN f
    ELSE LET w == written[Len(written)]
             wkeys == {w[i][1] : i \in DOMAIN w}
         IN  SelectSeq(f, LAMBDA m : m[1] \notin wkeys) \o w

\* what patients.json holds once the calls of save_data have been made
Stored(f, written) == IF written = <<>> THEN f ELSE written[Len(written)]

-----------------------------------------------------------------------------
(* sort_patients *)

SortFields == {"height", "weight", "bmi"}

SortOrders == {"asc", "desc"}

\* lambda x: x.get(sort_by, 0)
SortKey(e, sort_by) == IF sort_by \in DOMAIN e.rec THEN e.rec[sort_by] ELSE 0

Reverse(s) == [i \in DOMAIN s |-> s[Len(s) + 1 - i]]

\* x goes behind every element whose key is not greater than its own
InsertStable(s, x, sort_by) ==
    LET n == Cardinality({i \in DOMAIN s : SortKey(s[i], sort_by) <= SortKey(x, sort_by)})
    IN  SubSeq(s, 1, n) \o <<x>> \o SubSeq(s, n + 1, Len(s))

\* list.sort(): stable, ascending
RECURSIVE StableSort(_, _)
StableSort(s, sort_by) ==
    IF s = <<>> THEN <<>>
    ELSE InsertStable(StableSort(SubSeq(s, 1, Len(s) - 1), sort_by), s[Len(s)], sort_by)

\* variant: with reverse the list is sorted ascending and then reversed
SortedThenReversed(s, sort_by, reverse) ==
    IF reverse THEN Reverse(StableSort(s, sort_by)) ELSE StableSort(s, sort_by)

\* sorted(values, key=..., reverse=r): with reverse the list is reversed,
\* sorted ascending and reversed again
Sorted(s, sort_by, reverse) ==
    IF reverse THEN Reverse(StableSort(Reverse(s), sort_by)) ELSE StableSort(s, sort_by)

sort_patients(f, sort_by, order) ==
    IF sort_by \notin SortFields
    THEN Outcome(400, "Invalid field select from {valid_fields}", <<>>, <<>>)
    ELSE IF order \notin SortOrders
    THEN Outcome(400, "Invalid order, select either asc or desc", <<>>, <<>>)
    ELSE LET data == data_load(f)
             sorted_order == (order = "desc")
         IN  Outcome(200, "", Sorted(Values(data), sort_by, sorted_order), <<>>)

-----------------------------------------------------------------------------
(* The routes: the request body is validated against the parameter's model  *)
(* before the handler runs; a body that fails is answered 422.              *)

post_create(f, body) ==
    IF PatientValid(body)
    THEN create_patient(f, body)
    ELSE Outcome(422, "RequestValidationError", <<>>, <<>>)

put_edit(f, patient_id, body) ==
    IF PatientUpdateValid(body)
    THEN update_patient(f, patient_id, body)
    ELSE Outcome(422, "RequestValidationError", <<>>, <<>>)

-----------------------------------------------------------------------------
(* Requests considered *)

InputValues ==
    [name   |-> {"Asha", "Ravi"},
     city   |-> {"Pune", "Delhi"},
     age    |-> {0, 60, 120},
     gender |-> {"male", "other", "unknown"},
     height |-> {0, 160, 200},
     weight |-> {0, 74, 100, 120}]

RECURSIVE PatchesOver(_)
PatchesOver(fields) ==
    IF fields = <<>> THEN {EmptyDict}
    ELSE LET rest == PatchesOver(Tail(fields))
         IN  rest \cup {SetItem(p, Head(fields), v) : p \in rest, v \in InputValues[Head(fields)]}

Patches == {p \in PatchesOver(FieldOrder) : Cardinality(DOMAIN p) <= MaxPatchFields}

CreateBodies ==
    {[id |-> i, name |-> "Ravi", city |-> "Delhi", age |-> a, gender |-> g,
      height |-> h, weight |-> w] :
        i \in Ids, a \in {30, 120}, g \in {"male", "unknown"},
        h \in {0, 200}, w \in {55, 120}}

SortByInputs == SortFields \cup {"age"}

OrderInputs == SortOrders \cup {"up"}

Seed1 == PatientDump([id |-> "P001", name |-> "Asha", city |-> "Pune", age |-> 30,
                      gender |-> "female", height |-> 160, weight |-> 55])

Seed2 == PatientDump([id |-> "P002", name |-> "Asha", city |-> "Pune", age |-> 119,
                      gender |-> "female", height |-> 200, weight |-> 100])

InitFiles ==
    { <<>>,
      << <<"P001", Seed1>> >>,
      << <<"P001", Seed1>>, <<"P002", Seed2>> >>,
      << <<"P002", Seed2>>, <<"P001", Seed1>> >> }

-----------------------------------------------------------------------------
(* Sequential service: one request at a time, load - compute - save *)

NoCall == [op |-> "none", id |-> "", arg |-> EmptyDict]

NoResp == [status |-> 0, detail |-> "", result |-> <<>>, saves |-> 0]

NoOutcome == Outcome(0, "", <<>>, <<>>)

SeqIdle ==
    /\ call = NoCall
    /\ resp = NoResp
    /\ gone = {}
    /\ nops = 0

ConcIdle ==
    /\ pc = [p \in Procs |-> "idle"]
    /\ req = [p \in Procs |-> NoCall]
    /\ snap = [p \in Procs |-> <<>>]
    /\ out = [p \in Procs |-> NoOutcome]
    /\ log = <<>>

Init ==
    /\ file \in InitFiles
    /\ before = file
    /\ SeqIdle
    /\ ConcIdle

\* the service is idle and may take another request
Idle == call = NoCall /\ nops < MaxOps

\* a request is received and its handler runs to its end
Serve(op, id, arg, o) ==
    /\ file' = Stored(file, o.written)
    /\ call' = [op |-> op, id |-> id, arg |-> arg]
    /\ resp' = [status |-> o.status, detail |-> o.detail, result |-> o.result,
                saves |-> Len(o.written)]
    /\ before' = file
    /\ nops' = nops + 1
    /\ UNCHANGED <<gone, concVars>>

View == Idle /\ Serve("view", "", EmptyDict, view(file))

ViewPatient == Idle /\ \E id \in Ids : Serve("view_patient", id, EmptyDict, view_patient(file, id))

SortPatients ==
    Idle /\ \E sort_by \in SortByInputs, order \in OrderInputs :
        Serve("sort_patients", "", [sort_by |-> sort_by, order |-> order],
              sort_patients(file, sort_by, order))

CreatePatient == Idle /\ \E body \in CreateBodies : Serve("create_patient", body.id, body, post_create(file, body))

UpdatePatient ==
    Idle /\ \E id \in Ids, patch \in Patches :
        Serve("update_patient", id, patch, put_edit(file, id, patch))

DeletePatient == Idle /\ \E id \in Ids : Serve("delete_patient", id, EmptyDict, delete_patient(file, id))

\* the response has been sent; the service waits for the next request
Respond ==
    /\ call # NoCall
    /\ gone' = IF call.op = "delete_patient" /\ resp.status = 200 THEN gone \cup {call.id}
               ELSE IF call.op = "create_patient" /\ resp.status = 201 THEN gone \ {call.id}
               ELSE gone
    /\ call' = NoCall
    /\ resp' = NoResp
    /\ before' = file
    /\ UNCHANGED <<file, nops, concVars>>

Next ==
    \/ View
    \/ ViewPatient
    \/ SortPatients
    \/ CreatePatient
    \/ UpdatePatient
    \/ DeletePatient
    \/ Respond

Spec == Init /\ [][Next]_vars

-----------------------------------------------------------------------------
(* sort_patients on longer collections, some of whose records were stored   *)
(* without the computed fields                                              *)

WithoutComputed(rec) == [k \in (DOMAIN rec) \ {"bmi", "verdict"} |-> rec[k]]

SortRecs ==
    { Seed1,
      Seed2,
      PatientDump([id |-> "", name |-> "Ravi", city |-> "Delhi", age |-> 60,
                   gender |-> "male", height |-> 160, weight |-> 100]),
      WithoutComputed(Seed1) }

\* the collections of n records with pairwise distinct ids
RECURSIVE SortFilesOfLen(_)
SortFilesOfLen(n) ==
    IF n = 0 THEN {<<>>}
    ELSE UNION { {Append(f, <<i, r>>) :
                    i \in SortIds \ {f[j][1] : j \in DOMAIN f}, r \in SortRecs} :
                 f \in SortFilesOfLen(n - 1) }

SortInitFiles == UNION {SortFilesOfLen(n) : n \in 0..MaxSortLen}

InitSort ==
    /\ file \in SortInitFiles
    /\ before = file
    /\ SeqIdle
    /\ ConcIdle

NextSort ==
    \/ SortPatients
    \/ Respond

SpecSort == InitSort /\ [][NextSort]_vars

-----------------------------------------------------------------------------
(* Concurrent service: the handlers are plain functions, which the server   *)
(* runs in worker threads; a handler reads patients.json once (data_load)   *)
(* and writes it at most once (save_data), and other threads may run in     *)
(* between.                                                                 *)

ConcRequests ==
    {[op |-> "create_patient", id |-> i,
      arg |-> [id |-> i, name |-> "Ravi", city |-> "Delhi", age |-> 30,
               gender |-> "male", height |-> 200, weight |-> 55]] : i \in Ids}
    \cup
    {[op |-> "update_patient", id |-> i, arg |-> p] :
        i \in Ids,
        p \in {pp \in Patches : DOMAIN pp \in {{"name"}, {"weight"}, {"age"}}}}
    \cup
    {[op |-> "delete_patient", id |-> i, arg |-> EmptyDict] : i \in Ids}

\* the handler of a request, run on the contents f it has read
Handle(f, c) ==
    CASE c.op = "create_patient" -> post_create(f, c.arg)
      [] c.op = "update_patient" -> put_edit(f, c.id, c.arg)
      [] c.op = "delete_patient" -> delete_patient(f, c.id)

InitConc ==
    /\ file \in InitFiles
    /\ before = file
    /\ SeqIdle
    /\ ConcIdle

\* a worker thread takes a request and reaches the end of data_load
Load(p) ==
    /\ pc[p] = "idle"
    /\ \E c \in ConcRequests :
        /\ req' = [req EXCEPT ![p] = c]
        /\ snap' = [snap EXCEPT ![p] = file]
        /\ pc' = [pc EXCEPT ![p] = "loaded"]
        /\ log' = Append(log, <<p, "load">>)
    /\ UNCHANGED <<file, before, seqVars, out>>

\* the thread runs the rest of its handler: the checks, save_data, the response
Complete(p) ==
    /\ pc[p] = "loaded"
    /\ LET o == Handle(snap[p], req[p])
       IN  /\ file' = Stored(file, o.written)
           /\ out' = [out EXCEPT ![p] = o]
           /\ log' = Append(log, <<p, IF o.written = <<>> THEN "fail" ELSE "save">>)
    /\ pc' = [pc EXCEPT ![p] = "done"]
    /\ UNCHANGED <<before, seqVars, req, snap>>

NextConc == \E p \in Procs : Load(p) \/ Complete(p)

SpecConc == InitConc /\ [][NextConc]_vars

-----------------------------------------------------------------------------
(* Properties of the sequential service.  In a state reached by a request,  *)
(* call is the request, resp its response, before the file as the request   *)
(* found it and file the file as the request left it.                       *)

Loaded(f) == data_load(f)

Rec(f, id) == Get(Loaded(f), id)

Exists(f, id) == id \in Keys(Loaded(f))

Succeeded == resp.status \in {200, 201}

Mutating == {"create_patient", "update_patient", "delete_patient"}

\* b hundredths is weight / height^2 rounded to 2 decimals (height in cm)
IsRoundedBmi(b, height, weight) ==
    LET n == weight * 1000000
        d == height * height
        diff == IF b * d >= n THEN b * d - n ELSE n - b * d
    IN  2 * diff <= d

\* the band of a bmi, each band closed at its lower end
IsBand(v, b) ==
    \/ b < 1850 /\ v = "Underweight"
    \/ 1850 <= b /\ b < 2500 /\ v = "Normal"
    \/ 2500 <= b /\ b < 3000 /\ v = "Overweight"
    \/ 3000 <= b /\ v = "Obese"

Consistent(r) ==
    /\ {"bmi", "verdict"} \subseteq DOMAIN r
    /\ IsRoundedBmi(r.bmi, r.height, r.weight)
    /\ IsBand(r.verdict, r.bmi)

\* a value that the constraints of PatientRecord forbid
ViolatesConstraint(p) ==
    \/ "age" \in DOMAIN p /\ ~(0 < p.age /\ p.age < 120)
    \/ "gender" \in DOMAIN p /\ p.gender \notin {"male", "female", "other"}
    \/ "height" \in DOMAIN p /\ ~(p.height > 0)
    \/ "weight" \in DOMAIN p /\ ~(p.weight > 0)

\* C1: after a successful update_patient of an existing id, the stored record
\* has the patch's value in every field of the patch and its former value in
\* every other declared field, whatever the number of fields in the patch.
ClaimC1_WholePatchApplied ==
    (call.op = "update_patient" /\ resp.status = 200 /\ Exists(before, call.id))
    => /\ Exists(file, call.id)
       /\ \A k \in PatientFields :
            Rec(file, call.id)[k] =
                IF k \in DOMAIN call.arg THEN call.arg[k] ELSE Rec(before, call.id)[k]

\* C2: an update_patient of an existing id whose patch holds a value that the
\* constraints of a patient record forbid, at any position of the patch, ends
\* in a validation error, reports no success and leaves the file as it was.
ClaimC2_ViolationNeverDropped ==
    (call.op = "update_patient" /\ Exists(before, call.id) /\ ViolatesConstraint(call.arg))
    => /\ resp.status \in {422, 500}
       /\ resp.saves = 0
       /\ file = before

\* C3: every stored record satisfies 0 < age < 120, height > 0, weight > 0, has
\* bmi = weight / height^2 rounded to 2 decimals for its height and weight, and
\* has the verdict of the band of that bmi, the bands closed at their lower end.
InvC3_StoredRecordsValid ==
    \A i \in DOMAIN Loaded(file) :
        LET r == Loaded(file)[i].rec
        IN  /\ PatientFields \subseteq DOMAIN r
            /\ 0 < r.age /\ r.age < 120
            /\ r.height > 0
            /\ r.weight > 0
            /\ Consistent(r)

\* an update of the weight has brought a record to a bmi of exactly 18.5
WitC3_UpdatedToBoundary ==
    /\ call.op = "update_patient"
    /\ resp.status = 200
    /\ "weight" \in DOMAIN call.arg
    /\ Exists(file, call.id)
    /\ Rec(file, call.id).bmi = 1850
    /\ Rec(file, call.id).verdict = "Normal"
    /\ Rec(before, call.id).bmi # 1850

\* C4: create_patient with an id already in the file answers 400 'Patient
\* already exists.', saves nothing and leaves the file as it was; with a new id
\* it succeeds and the file then maps the id to the record's fields without id.
InvC4_CreateDuplicateRejected ==
    (call.op = "create_patient" /\ resp.status # 422)
    => IF Exists(before, call.id)
       THEN /\ resp.status = 400
            /\ resp.detail = "Patient already exists."
            /\ resp.saves = 0
            /\ file = before
       ELSE /\ resp.status = 201
            /\ Exists(file, call.id)
            /\ "id" \notin DOMAIN Rec(file, call.id)
            /\ \A k \in PatientFields : Rec(file, call.id)[k] = call.arg[k]

\* a create was refused for an id whose stored record differs from the body
WitC4_DuplicateRefused ==
    /\ call.op = "create_patient"
    /\ resp.status = 400
    /\ Exists(before, call.id)
    /\ Rec(before, call.id).name # call.arg.name

\* C5: view_patient, update_patient and delete_patient of an id that is not in
\* the file answer 404 and leave the file as it was; an id deleted and not
\* created again is answered 404 by each of them.
InvC5_MissingIdNotFound ==
    (call.op \in {"view_patient", "update_patient", "delete_patient"} /\ resp.status # 422)
    => /\ ~Exists(before, call.id) =>
            (resp.status = 404 /\ resp.saves = 0 /\ file = before)
       /\ call.id \in gone => resp.status = 404

\* an update of an id that an earlier request deleted was answered 404
WitC5_UpdateAfterDelete ==
    /\ call.op = "update_patient"
    /\ call.id \in gone
    /\ resp.status = 404
    /\ before # <<>>

\* C6: update_patient of an existing id with a patch that sets no field leaves
\* the record, its bmi and verdict, and the whole file as they were.
InvC6_EmptyPatchChangesNothing ==
    (call.op = "update_patient" /\ DOMAIN call.arg = {} /\ Exists(before, call.id))
    => /\ file = before
       /\ Rec(file, call.id) = Rec(before, call.id)

\* an empty patch was sent for an existing id and answered 200
WitC6_EmptyPatchServed ==
    /\ call.op = "update_patient"
    /\ DOMAIN call.arg = {}
    /\ Exists(before, call.id)
    /\ resp.status = 200

\* C7: for a stored record with consistent computed fields, a successful update
\* of only the height or only the weight stores the bmi and verdict of the new
\* height and weight; a successful update of fields other than height and
\* weight stores the bmi and verdict the record had.
InvC7_DerivedFollowHeightWeight ==
    (/\ call.op = "update_patient"
     /\ resp.status = 200
     /\ Exists(before, call.id)
     /\ Consistent(Rec(before, call.id)))
    => LET r0 == Rec(before, call.id)
           r  == Rec(file, call.id)
           p  == call.arg
       IN  /\ DOMAIN p = {"height"} =>
                (r.height = p.height /\ IsRoundedBmi(r.bmi, p.height, r0.weight)
                 /\ IsBand(r.verdict, r.bmi))
           /\ DOMAIN p = {"weight"} =>
                (r.weight = p.weight /\ IsRoundedBmi(r.bmi, r0.height, p.weight)
                 /\ IsBand(r.verdict, r.bmi))
           /\ (DOMAIN p # {} /\ DOMAIN p \subseteq {"name", "city", "age", "gender"}) =>
                (r.bmi = r0.bmi /\ r.verdict = r0.verdict)

\* an update of the height alone has changed the stored bmi and verdict
WitC7_HeightChangedBmi ==
    /\ call.op = "update_patient"
    /\ resp.status = 200
    /\ DOMAIN call.arg = {"height"}
    /\ Exists(before, call.id)
    /\ Rec(file, call.id).bmi # Rec(before, call.id).bmi
    /\ Rec(file, call.id).verdict # Rec(before, call.id).verdict

-----------------------------------------------------------------------------
(* Properties of sort_patients *)

\* the value a record is ordered by: its field, or 0 when it has none
KeyOrZero(e, k) == IF k \in DOMAIN e.rec THEN e.rec[k] ELSE 0

\* position of the entry with this id in the collection
PositionOf(d, id) == CHOOSE i \in DOMAIN d : d[i].id = id

\* C8: for sort_by in {height, weight, bmi} and order in {asc, desc},
\* sort_patients returns a permutation of the records of the file,
\* non-decreasing in the key for asc and non-increasing for desc, records of
\* equal key in the order of the file in both directions, a record without the
\* key ordered as if its value were 0.
InvC8_SortStablePermutation ==
    (/\ call.op = "sort_patients"
     /\ call.arg.sort_by \in {"height", "weight", "bmi"}
     /\ call.arg.order \in {"asc", "desc"})
    => LET d == Loaded(before)
           r == resp.result
           k == call.arg.sort_by
       IN  /\ resp.status = 200
           /\ Len(r) = Len(d)
           /\ {r[i] : i \in DOMAIN r} = {d[i] : i \in DOMAIN d}
           /\ \A i, j \in DOMAIN r :
                i < j =>
                    /\ call.arg.order = "asc" => KeyOrZero(r[i], k) <= KeyOrZero(r[j], k)
                    /\ call.arg.order = "desc" => KeyOrZero(r[i], k) >= KeyOrZero(r[j], k)
                    /\ KeyOrZero(r[i], k) = KeyOrZero(r[j], k) =>
                            PositionOf(d, r[i].id) < PositionOf(d, r[j].id)

\* a descending sort by bmi of three records, two of them without a bmi, has
\* been answered
WitC8_DescWithTiesAndMissingKey ==
    /\ call.op = "sort_patients"
    /\ resp.status = 200
    /\ call.arg.sort_by = "bmi"
    /\ call.arg.order = "desc"
    /\ Len(resp.result) = 3
    /\ "bmi" \in DOMAIN resp.result[1].rec
    /\ "bmi" \notin DOMAIN resp.result[2].rec
    /\ "bmi" \notin DOMAIN resp.result[3].rec

-----------------------------------------------------------------------------
(* Properties of the concurrent service *)

AllDone == \A p \in Procs : pc[p] = "done"

AllSaved == \A p \in Procs : out[p].status \in {200, 201} /\ Len(out[p].written) = 1

DistinctIds == \A p, q \in Procs : p # q => req[p].id # req[q].id

\* both threads had read the file before either wrote it
Overlapped == Len(log) >= 2 /\ log[1][2] = "load" /\ log[2][2] = "load"

FirstSaver == log[3][1]

LastSaver == log[4][1]

\* the member of a file for an id, as a sequence of at most one record
Entry(f, id) == IF Exists(f, id) THEN <<Rec(f, id)>> ELSE <<>>

\* what a thread wrote for the id of its request
Effect(p) == Entry(out[p].written[1], req[p].id)

\* C9: when two mutating requests on different ids have both read the file
\* before either saved and both report success, the file is what the last
\* saver wrote and the id of the first saver is as it was at the start: its
\* update is lost; when one request ran after the other, the file holds the
\* effect of both.
InvC9_LastSaveWins ==
    (AllDone /\ AllSaved /\ DistinctIds)
    => IF Overlapped
       THEN /\ file = out[LastSaver].written[1]
            /\ Entry(file, req[FirstSaver].id) = Entry(before, req[FirstSaver].id)
            /\ Entry(file, req[LastSaver].id) = Effect(LastSaver)
       ELSE \A p \in Procs : Entry(file, req[p].id) = Effect(p)

\* both requests reported success and the change of the first saver is not in
\* the file
WitC9_UpdateLost ==
    /\ AllDone
    /\ AllSaved
    /\ DistinctIds
    /\ Overlapped
    /\ Effect(FirstSaver) # Entry(before, req[FirstSaver].id)
    /\ Entry(file, req[FirstSaver].id) # Effect(FirstSaver)
    /\ Entry(file, req[LastSaver].id) = Effect(LastSaver)
    /\ Effect(LastSaver) # Entry(before, req[LastSaver].id)

-----------------------------------------------------------------------------
(* Frame of the sequential service *)

\* C10: every request leaves the entries of the other ids as they were; view,
\* view_patient and sort_patients save nothing and change nothing; a
\* successful create_patient adds exactly its key, a successful delete_patient
\* removes exactly its key, a successful update_patient keeps the keys; each
\* successful mutating request calls save_data exactly once.
ClaimC10_FrameAndOneSave ==
    call.op # "none"
    => /\ \A id \in Keys(Loaded(before)) \cup Keys(Loaded(file)) :
            id # call.id => Entry(file, id) = Entry(before, id)
       /\ call.op \in {"view", "view_patient", "sort_patients"} =>
            (resp.saves = 0 /\ file = before)
       /\ (call.op = "create_patient" /\ resp.status = 201) =>
            (call.id \notin Keys(Loaded(before))
             /\ Keys(Loaded(file)) = Keys(Loaded(before)) \cup {call.id})
       /\ (call.op = "delete_patient" /\ resp.status = 200) =>
            (call.id \in Keys(Loaded(before))
             /\ Keys(Loaded(file)) = Keys(Loaded(before)) \ {call.id})
       /\ (call.op = "update_patient" /\ resp.status = 200) =>
            Keys(Loaded(file)) = Keys(Loaded(before))
       /\ (call.op \in Mutating /\ Succeeded) => resp.saves = 1

====
